---- MODULE Spec2Model ----
(***************************************************************************)
(* Model of src/answerer.py: the compliance query client.                  *)
(*                                                                         *)
(*   run_demo               the interactive shell (one line per turn)      *)
(*   get_compliance_answer  retrieve -> assemble -> generate -> return     *)
(*   retrieve_context       one POST to the Index Service                  *)
(*   build_context_string   "\n\n".join of the chunk texts                 *)
(*   extract_sources        list of the set of metadata.name values        *)
(*   generate_compliance_response   one chat completion call               *)
(*                                                                         *)
(* Strings the claims look into are sequences: a text is a sequence of     *)
(* characters, a message is a sequence of its formatted parts.             *)
(***************************************************************************)
EXTENDS Integers, Sequences, FiniteSets, TLC

VARIABLES
    shell,          \* run_demo: "input" | "calling" | "display" | "stopped" | "crashed"
    stopReason,     \* why run_demo left its loop: "none" | "exit" | "eof" | "interrupt" | "exception"
    linesRead,      \* input() calls that returned or raised so far
    queryLines,     \* lines read so far that were neither blank nor exit/quit
    invocations,    \* calls of get_compliance_answer so far
    pc,             \* get_compliance_answer: "idle" | "retrieve" | "generate" | "returned" | "raised"
    query,          \* the question of the current invocation
    service,        \* what the Index Service did for this invocation's request
    chunks,         \* local `chunks` of get_compliance_answer
    context,        \* local `context`
    sources,        \* local `sources`
    retrievalError, \* the exception retrieve_context raised, or NoExc
    llm,            \* what the LLM call did for this invocation
    genRaised,      \* the exception generate_compliance_response raised to its caller, or NoExc
    result,         \* the returned three-part result, or NoResult
    raised,         \* the exception that left get_compliance_answer, or NoExc
    log,            \* requests issued in this invocation, in order: "index" | "llm"
    p_pc,           \* pure-function harness: "off" | "start" | "built" | "extracted"
    p_chunks,       \* its input chunk sequence
    p_context,      \* build_context_string(p_chunks)
    p_sources       \* extract_sources(p_chunks)

vars == <<shell, stopReason, linesRead, queryLines, invocations, pc, query, service,
          chunks, context, sources, retrievalError, llm, genRaised, result, raised,
          log, p_pc, p_chunks, p_context, p_sources>>

shellVars == <<shell, stopReason, linesRead, queryLines, invocations>>
callVars == <<pc, query, service, chunks, context, sources, retrievalError, llm,
              genRaised, result, raised, log>>
pureVars == <<p_pc, p_chunks, p_context, p_sources>>

(***************************************************************************)
(* Bounds                                                                  *)
(***************************************************************************)
MaxLines == 2       \* lines the shell reads in one run
MaxChunks == 2      \* elements of a retrieval response array
MaxPureChunks == 3  \* chunks of a sequence given to the pure functions
MaxTextLen == 2     \* characters of a chunk text given to the pure functions

(***************************************************************************)
(* Sequences and characters                                                *)
(***************************************************************************)
NL == "\n"

Range(s) == {s[i] : i \in 1..Len(s)}

NoDuplicates(s) == \A i, j \in 1..Len(s) : s[i] = s[j] => i = j

SeqsUpTo(S, n) == UNION {[1..k -> S] : k \in 0..n}

RECURSIVE Join(_, _)
\* sep.join(parts) for a sequence of sequences
Join(parts, sep) ==
    IF Len(parts) = 0 THEN <<>>
    ELSE IF Len(parts) = 1 THEN parts[1]
    ELSE parts[1] \o sep \o Join(Tail(parts), sep)

RECURSIVE CountBlankLines(_)
\* str.count("\n\n"): non-overlapping occurrences, scanned left to right
CountBlankLines(s) ==
    IF Len(s) < 2 THEN 0
    ELSE IF s[1] = NL /\ s[2] = NL
         THEN 1 + CountBlankLines(SubSeq(s, 3, Len(s)))
         ELSE CountBlankLines(Tail(s))

(***************************************************************************)
(* Exceptions.  An exception is its class and its message (str(e)).        *)
(***************************************************************************)
Exc(cls, msg) == [cls |-> cls, msg |-> msg]

NoExc == Exc("None", <<>>)

\* The classes an instance of cls is an instance of (what an except clause
\* naming one of them matches).
Supers(cls) ==
    CASE cls = "requests.ConnectionError" ->
            {"requests.ConnectionError", "requests.RequestException", "OSError", "Exception"}
      [] cls = "requests.ConnectTimeout" ->
            {"requests.ConnectTimeout", "requests.ConnectionError", "requests.Timeout",
             "requests.RequestException", "OSError", "Exception"}
      [] cls = "requests.ReadTimeout" ->
            {"requests.ReadTimeout", "requests.Timeout",
             "requests.RequestException", "OSError", "Exception"}
      [] cls = "requests.TooManyRedirects" ->
            {"requests.TooManyRedirects", "requests.RequestException", "OSError", "Exception"}
      [] cls = "requests.HTTPError" ->
            {"requests.HTTPError", "requests.RequestException", "OSError", "Exception"}
      [] cls = "requests.JSONDecodeError" ->
            {"requests.JSONDecodeError", "requests.InvalidJSONError",
             "requests.RequestException", "json.JSONDecodeError", "ValueError",
             "OSError", "Exception"}
      [] cls = "ConnectionError" -> {"ConnectionError", "OSError", "Exception"}
      [] cls = "ValueError" -> {"ValueError", "Exception"}
      [] cls = "KeyError" -> {"KeyError", "LookupError", "Exception"}
      [] cls = "IndexError" -> {"IndexError", "LookupError", "Exception"}
      [] cls = "groq.APIConnectionError" ->
            {"groq.APIConnectionError", "groq.APIError", "groq.GroqError", "Exception"}
      [] cls = "groq.APIStatusError" ->
            {"groq.APIStatusError", "groq.APIError", "groq.GroqError", "Exception"}
      [] OTHER -> {cls}

\* Index of the first except clause that matches e, 0 when none does.
FirstMatch(e, clauses) ==
    LET hits == {i \in 1..Len(clauses) : clauses[i] \in Supers(e.cls)}
    IN IF hits = {} THEN 0 ELSE CHOOSE i \in hits : \A j \in hits : i <= j

Caught(e, classes) == classes \cap Supers(e.cls) # {}

(***************************************************************************)
(* The Index Service as the client sees it                                 *)
(***************************************************************************)
VECTOR_STORE_URL == "http://127.0.0.1:8000/v1/retrieve"

AllFields == {"text", "dist", "metadata.name"}

Chunk(text, name) == [fields |-> AllFields, text |-> text, name |-> name]

Names == {"basel_iii.pdf", "gdpr.pdf"}

\* Texts the Index Service returns in the end-to-end model.
SampleTexts == {<<"a">>, <<"b", NL>>}

WellFormedElements == {Chunk(t, n) : t \in SampleTexts, n \in Names}

\* Array elements that lack one of the fields the client reads.
MalformedElements ==
    {[fields |-> AllFields \ {f}, text |-> <<"a">>, name |-> "gdpr.pdf"] : f \in AllFields}

Elements == WellFormedElements \cup MalformedElements

\* Response bodies: text that is not JSON, JSON that is not an array, arrays.
InvalidJsonTexts == {"<html>", ""}

NonArrayJsonTexts == {"null", "7", "{}", "true", "\"doc\""}

TextBody(raw) == [kind |-> "text", raw |-> raw, elems |-> <<>>]

ArrayBody(elems) == [kind |-> "array", raw |-> "[...]", elems |-> elems]

Bodies ==
    {TextBody(r) : r \in InvalidJsonTexts \cup NonArrayJsonTexts}
    \cup {ArrayBody(es) : es \in SeqsUpTo(Elements, MaxChunks)}

Statuses == {200, 201, 300, 404, 503}

StatusText(st) ==
    CASE st = 200 -> "200" [] st = 201 -> "201" [] st = 300 -> "300"
      [] st = 404 -> "404" [] st = 503 -> "503" [] OTHER -> "?"

TransportFailures == {"refused", "connect_timeout", "read_timeout", "too_many_redirects"}

Response(st, body) == [transport |-> "ok", status |-> st, body |-> body]

TransportFailure(t) == [transport |-> t, status |-> 0, body |-> TextBody("")]

NoService == [transport |-> "none", status |-> 0, body |-> TextBody("")]

ServiceBehaviours ==
    {TransportFailure(t) : t \in TransportFailures}
    \cup {Response(st, b) : st \in Statuses, b \in Bodies}

(***************************************************************************)
(* retrieve_context                                                        *)
(***************************************************************************)
Raise(e) == [exc |-> e, value |-> <<>>]

Return(v) == [exc |-> NoExc, value |-> v]

\* str() of the parsed value of a JSON text that is not an array
PyStr(raw) ==
    CASE raw = "null" -> "None"
      [] raw = "true" -> "True"
      [] raw = "\"doc\"" -> "doc"
      [] OTHER -> raw

\* requests.post(VECTOR_STORE_URL, json=payload, timeout=10)
RequestsPost(b) ==
    CASE b.transport = "refused" ->
            Raise(Exc("requests.ConnectionError", <<"Connection refused">>))
      [] b.transport = "connect_timeout" ->
            Raise(Exc("requests.ConnectTimeout", <<"connect timeout=10">>))
      [] b.transport = "read_timeout" ->
            Raise(Exc("requests.ReadTimeout", <<"read timeout=10">>))
      [] b.transport = "too_many_redirects" ->
            Raise(Exc("requests.TooManyRedirects", <<"Exceeded 30 redirects.">>))
      [] OTHER -> Return(b)

\* response.raise_for_status()
RaiseForStatus(b) ==
    IF 400 <= b.status /\ b.status < 600
    THEN Raise(Exc("requests.HTTPError",
                   <<StatusText(b.status), " Error for url: ", VECTOR_STORE_URL>>))
    ELSE Return(b)

\* response.json()
ResponseJson(b) ==
    IF b.body.kind = "text" /\ b.body.raw \in InvalidJsonTexts
    THEN Raise(Exc("requests.JSONDecodeError",
                   <<"Expecting value: line 1 column 1 (char 0)">>))
    ELSE Return(b.body)

\* The body of the try statement, lines 99-101.
RetrieveTry(b) ==
    LET posted == RequestsPost(b)
    IN IF posted.exc # NoExc THEN posted
       ELSE LET checked == RaiseForStatus(b)
            IN IF checked.exc # NoExc THEN checked ELSE ResponseJson(b)

\* The except clauses of retrieve_context, in the order they are written.
RetrieveExceptClauses ==
    <<"requests.ConnectionError", "requests.Timeout", "requests.HTTPError">>

UnreachableMessage ==
    <<"Cannot reach VectorStoreServer at ", VECTOR_STORE_URL, ". Ensure main.py is running.">>

TimeoutMessage == <<"VectorStoreServer request timed out after 10 seconds.">>

\* What the i-th except clause raises for e.
RetrieveHandler(i, e) ==
    CASE i = 1 -> Exc("ConnectionError", UnreachableMessage)
      [] i = 2 -> Exc("ConnectionError", TimeoutMessage)
      [] i = 3 -> Exc("ValueError", <<"VectorStoreServer returned an error: ">> \o e.msg)
      [] OTHER -> e

retrieve_context(b) ==
    LET tried == RetrieveTry(b)
    IN IF tried.exc # NoExc
       THEN Raise(RetrieveHandler(FirstMatch(tried.exc, RetrieveExceptClauses), tried.exc))
       ELSE IF tried.value.kind # "array"
       THEN Raise(Exc("ValueError",
                      <<"Unexpected response format from vector store: ",
                        PyStr(tried.value.raw)>>))
       ELSE Return(tried.value.elems)

(***************************************************************************)
(* build_context_string, extract_sources                                   *)
(***************************************************************************)
Lacking(cs, f) == \E i \in 1..Len(cs) : f \notin cs[i].fields

\* A join with a single newline instead of a blank line.
build_context_string_SingleNewline(cs) ==
    IF Lacking(cs, "text")
    THEN Raise(Exc("KeyError", <<"'text'">>))
    ELSE Return(Join([i \in 1..Len(cs) |-> cs[i].text], <<NL>>))

build_context_string(cs) ==
    IF Lacking(cs, "text")
    THEN Raise(Exc("KeyError", <<"'text'">>))
    ELSE Return(Join([i \in 1..Len(cs) |-> cs[i].text], <<NL, NL>>))

\* {chunk["metadata"]["name"] for chunk in chunks}
SourceNames(cs) == {cs[i].name : i \in 1..Len(cs)}

\* list(s) of a set s: its elements once each, in an order the set decides
ListsOfSet(S) == {l \in [1..Cardinality(S) -> S] : Range(l) = S}

\* A list comprehension instead of a set comprehension: no deduplication.
extract_sources_NoDedup(cs) ==
    IF Lacking(cs, "metadata.name")
    THEN Raise(Exc("KeyError", <<"'name'">>))
    ELSE [exc |-> NoExc, value |-> {[i \in 1..Len(cs) |-> cs[i].name]}]

\* value is the set of lists the call can return
extract_sources(cs) ==
    IF Lacking(cs, "metadata.name")
    THEN Raise(Exc("KeyError", <<"'name'">>))
    ELSE [exc |-> NoExc, value |-> ListsOfSet(SourceNames(cs))]

(***************************************************************************)
(* generate_compliance_response                                            *)
(***************************************************************************)
Answers == {<<"The minimum CET1 ratio is **4.5%**.">>}

LlmOk(choices) == [call |-> "ok", choices |-> choices]

LlmFailure(cls) == [call |-> cls, choices |-> <<>>]

NoLlm == [call |-> "none", choices |-> <<>>]

\* What client.chat.completions.create can do: return a completion with or
\* without choices, or raise a transport or a status error.
LlmBehaviours ==
    {LlmOk(<<a>>) : a \in Answers} \cup {LlmOk(<<>>)}
    \cup {LlmFailure(c) : c \in {"groq.APIConnectionError", "groq.APIStatusError"}}

generate_compliance_response(question, ctx, l) ==
    IF l.call # "ok"
    THEN Raise(Exc(l.call, <<"Connection error.">>))
    ELSE IF Len(l.choices) = 0
    THEN Raise(Exc("IndexError", <<"list index out of range">>))
    ELSE Return(l.choices[1])

(***************************************************************************)
(* get_compliance_answer                                                   *)
(***************************************************************************)
None == [none |-> TRUE, list |-> <<>>]

Some(l) == [none |-> FALSE, list |-> l]

Result(cs, answer, srcs) == [chunks |-> cs, answer |-> answer, sources |-> srcs]

NoResult == Result(None, <<>>, <<>>)

\* except ConnectionError alone
RetrievalCatches_OnlyConnection == {"ConnectionError"}

\* except (ConnectionError, ValueError), line 194
RetrievalCatches == {"ConnectionError", "ValueError"}

\* except groq.APIError instead of Exception
GenerationCatches_ApiErrors == {"groq.APIError"}

\* except Exception, line 203
GenerationCatches == {"Exception"}

\* return None, str(e), []
RetrievalFailureResult(e) == Result(None, e.msg, <<>>)

\* The generation failure returned with the empty source list of the
\* retrieval failure.
GenerationFailureResult_NoSources(cs, e, srcs) ==
    Result(Some(cs), <<"LLM error: ">> \o e.msg, <<>>)

\* return chunks, f"LLM error: {e}", sources
GenerationFailureResult(cs, e, srcs) == Result(Some(cs), <<"LLM error: ">> \o e.msg, srcs)

\* A second POST after a timeout.
RetrieveRequests_RetryOnTimeout(b) ==
    IF b.transport \in {"connect_timeout", "read_timeout"}
    THEN <<"index", "index">>
    ELSE <<"index">>

\* The requests retrieve_context sends: one POST, no loop around it.
RetrieveRequests(b) == <<"index">>

\* The requests generate_compliance_response sends: one create call.
GenerateRequests(l) == <<"llm">>

\* Lines 192-199: retrieve, then assemble context and sources.
Retrieve(b) ==
    /\ shell = "calling"
    /\ pc = "retrieve"
    /\ service' = b
    /\ log' = log \o RetrieveRequests(b)
    /\ LET r == retrieve_context(b)
           c == build_context_string(r.value)
           s == extract_sources(r.value)
       IN IF r.exc # NoExc
          THEN /\ retrievalError' = r.exc
               /\ UNCHANGED <<chunks, context, sources>>
               /\ IF Caught(r.exc, RetrievalCatches)
                  THEN /\ result' = RetrievalFailureResult(r.exc)
                       /\ pc' = "returned"
                       /\ UNCHANGED raised
                  ELSE /\ raised' = r.exc
                       /\ pc' = "raised"
                       /\ UNCHANGED result
          ELSE /\ chunks' = r.value
               /\ UNCHANGED <<retrievalError, result>>
               /\ IF c.exc # NoExc
                  THEN /\ raised' = c.exc
                       /\ pc' = "raised"
                       /\ UNCHANGED <<context, sources>>
                  ELSE IF s.exc # NoExc
                  THEN /\ context' = c.value
                       /\ raised' = s.exc
                       /\ pc' = "raised"
                       /\ UNCHANGED sources
                  ELSE /\ context' = c.value
                       /\ sources' \in s.value
                       /\ pc' = "generate"
                       /\ UNCHANGED raised
    /\ UNCHANGED <<query, llm, genRaised>>
    /\ UNCHANGED shellVars
    /\ UNCHANGED pureVars

\* Lines 201-207: generate, and turn a failure into an answer text.
Generate(l) ==
    /\ shell = "calling"
    /\ pc = "generate"
    /\ llm' = l
    /\ log' = log \o GenerateRequests(l)
    /\ LET g == generate_compliance_response(query, context, l)
       IN IF g.exc # NoExc
          THEN /\ genRaised' = g.exc
               /\ IF Caught(g.exc, GenerationCatches)
                  THEN /\ result' = GenerationFailureResult(chunks, g.exc, sources)
                       /\ pc' = "returned"
                       /\ UNCHANGED raised
                  ELSE /\ raised' = g.exc
                       /\ pc' = "raised"
                       /\ UNCHANGED result
          ELSE /\ result' = Result(Some(chunks), g.value, sources)
               /\ pc' = "returned"
               /\ UNCHANGED <<genRaised, raised>>
    /\ UNCHANGED <<query, service, chunks, context, sources, retrievalError>>
    /\ UNCHANGED shellVars
    /\ UNCHANGED pureVars

(***************************************************************************)
(* run_demo                                                                *)
(***************************************************************************)
Whitespace == {" ", "\t"}

RECURSIVE LStrip(_)
LStrip(s) == IF Len(s) > 0 /\ s[1] \in Whitespace THEN LStrip(Tail(s)) ELSE s

RECURSIVE RStrip(_)
RStrip(s) ==
    IF Len(s) > 0 /\ s[Len(s)] \in Whitespace THEN RStrip(SubSeq(s, 1, Len(s) - 1)) ELSE s

\* str.strip()
Strip(s) == RStrip(LStrip(s))

LowerChar(c) ==
    CASE c = "E" -> "e" [] c = "X" -> "x" [] c = "I" -> "i" [] c = "T" -> "t"
      [] c = "Q" -> "q" [] c = "U" -> "u" [] c = "C" -> "c"
      [] OTHER -> c

\* str.lower()
Lower(s) == [i \in 1..Len(s) |-> LowerChar(s[i])]

ExitWords == {<<"e", "x", "i", "t">>, <<"q", "u", "i", "t">>}

Lines ==
    { <<>>, <<" ">>, <<" ", "\t">>,
      <<"e", "x", "i", "t">>, <<"E", "X", "I", "T">>, <<" ", "Q", "u", "i", "t", " ">>,
      <<"C", "E", "T", "1", "?">>, <<" ", "e", "x", "i", "t", "s">> }

InputEvents ==
    {[kind |-> "line", text |-> t] : t \in Lines}
    \cup {[kind |-> k, text |-> <<>>] : k \in {"eof", "interrupt"}}

IsBlank(text) == Strip(text) = <<>>

IsExit(text) == Lower(Strip(text)) \in ExitWords

\* Lines 266-284: read one line; stop, skip it, or call get_compliance_answer.
ReadInput(ev) ==
    /\ shell = "input"
    /\ linesRead < MaxLines
    /\ linesRead' = linesRead + 1
    /\ IF ev.kind # "line"
       THEN /\ shell' = "stopped"
            /\ stopReason' = ev.kind
            /\ UNCHANGED <<queryLines, invocations>>
            /\ UNCHANGED callVars
       ELSE IF IsBlank(ev.text)
       THEN /\ UNCHANGED <<shell, stopReason, queryLines, invocations>>
            /\ UNCHANGED callVars
       ELSE IF IsExit(ev.text)
       THEN /\ shell' = "stopped"
            /\ stopReason' = "exit"
            /\ UNCHANGED <<queryLines, invocations>>
            /\ UNCHANGED callVars
       ELSE /\ shell' = "calling"
            /\ queryLines' = queryLines + 1
            /\ invocations' = invocations + 1
            /\ pc' = "retrieve"
            /\ query' = Strip(ev.text)
            /\ UNCHANGED <<stopReason, service, chunks, context, sources,
                           retrievalError, llm, genRaised, result, raised, log>>
    /\ UNCHANGED pureVars

\* Lines 284-303: take the result; print the error, or the report and the
\* evidence.  display_semantic_results reads chunk["dist"] of every chunk.
Display ==
    /\ shell = "calling"
    /\ pc = "returned"
    /\ IF result.chunks.none \/ ~Lacking(result.chunks.list, "dist")
       THEN /\ shell' = "input"
            /\ UNCHANGED <<stopReason, raised>>
       ELSE /\ shell' = "crashed"
            /\ stopReason' = "exception"
            /\ raised' = Exc("KeyError", <<"'dist'">>)
    /\ pc' = "idle"
    /\ query' = <<>>
    /\ service' = NoService
    /\ chunks' = <<>>
    /\ context' = <<>>
    /\ sources' = <<>>
    /\ retrievalError' = NoExc
    /\ llm' = NoLlm
    /\ genRaised' = NoExc
    /\ result' = NoResult
    /\ log' = <<>>
    /\ UNCHANGED <<linesRead, queryLines, invocations>>
    /\ UNCHANGED pureVars

\* Line 284 when get_compliance_answer raises: nothing in run_demo catches it.
Propagate ==
    /\ shell = "calling"
    /\ pc = "raised"
    /\ shell' = "crashed"
    /\ stopReason' = "exception"
    /\ UNCHANGED <<linesRead, queryLines, invocations>>
    /\ UNCHANGED <<pc, query, service, chunks, context, sources, retrievalError, llm,
                   genRaised, result, raised, log>>
    /\ UNCHANGED pureVars

CallInit ==
    /\ pc = "idle"
    /\ query = <<>>
    /\ service = NoService
    /\ chunks = <<>>
    /\ context = <<>>
    /\ sources = <<>>
    /\ retrievalError = NoExc
    /\ llm = NoLlm
    /\ genRaised = NoExc
    /\ result = NoResult
    /\ raised = NoExc
    /\ log = <<>>

Init ==
    /\ shell = "input"
    /\ stopReason = "none"
    /\ linesRead = 0
    /\ queryLines = 0
    /\ invocations = 0
    /\ CallInit
    /\ p_pc = "off"
    /\ p_chunks = <<>>
    /\ p_context = <<>>
    /\ p_sources = <<>>

Next ==
    \/ \E ev \in InputEvents : ReadInput(ev)
    \/ \E b \in ServiceBehaviours : Retrieve(b)
    \/ \E l \in LlmBehaviours : Generate(l)
    \/ Display
    \/ Propagate

Spec == Init /\ [][Next]_vars

(***************************************************************************)
(* The pure functions of the context assembler, applied to chunk sequences *)
(***************************************************************************)
Alphabet == {"a", NL}

PureTexts == SeqsUpTo(Alphabet, MaxTextLen)

PureChunks == {Chunk(t, n) : t \in PureTexts, n \in Names}

PureInit ==
    /\ shell = "stopped"
    /\ stopReason = "none"
    /\ linesRead = 0
    /\ queryLines = 0
    /\ invocations = 0
    /\ CallInit
    /\ p_pc = "start"
    /\ p_chunks \in SeqsUpTo(PureChunks, MaxPureChunks)
    /\ p_context = <<>>
    /\ p_sources = <<>>

ApplyBuildContext ==
    /\ p_pc = "start"
    /\ p_context' = build_context_string(p_chunks).value
    /\ p_pc' = "built"
    /\ UNCHANGED <<p_chunks, p_sources>>
    /\ UNCHANGED shellVars
    /\ UNCHANGED callVars

ApplyExtractSources ==
    /\ p_pc = "built"
    /\ p_sources' \in extract_sources(p_chunks).value
    /\ p_pc' = "extracted"
    /\ UNCHANGED <<p_chunks, p_context>>
    /\ UNCHANGED shellVars
    /\ UNCHANGED callVars

PureNext == ApplyBuildContext \/ ApplyExtractSources

PureSpec == PureInit /\ [][PureNext]_vars

(***************************************************************************)
(* Properties                                                              *)
(***************************************************************************)
\* msg contains the text s
Contains(msg, s) == s = "" \/ s \in Range(msg)

Finished == pc \in {"returned", "raised"}

\* The failures of retrieval the pipeline signals: unreachable, timeout,
\* error status (what raise_for_status rejects), malformed response.
RetrievalFailed(b) ==
    \/ b.transport \in {"refused", "connect_timeout", "read_timeout"}
    \/ /\ b.transport = "ok"
       /\ \/ b.status >= 400
          \/ b.body.kind # "array"

\* C1: every invocation of get_compliance_answer ends by returning a result;
\* no exception leaves it, whatever the Index Service and the LLM do.
C1_NoExceptionEscapes == pc # "raised"

C3_GenerationFailureKeepsEvidence ==
    (Finished /\ llm # NoLlm /\ (llm.call # "ok" \/ llm.choices = <<>>)) =>
        /\ pc = "returned"
        /\ result.chunks = Some(service.body.elems)
        /\ Head(result.answer) = "LLM error: "
        /\ NoDuplicates(result.sources)
        /\ Range(result.sources)
             = {service.body.elems[i].name : i \in 1..Len(service.body.elems)}
        /\ (Len(service.body.elems) > 0 => result.sources # <<>>)

C3_Witness ==
    /\ pc = "returned"
    /\ llm.call = "groq.APIConnectionError"
    /\ Len(result.chunks.list) = 2
    /\ Len(result.sources) = 1
    /\ Head(result.answer) = "LLM error: "

\* C4: a retrieval request that times out, while connecting or while reading,
\* yields (None, the timed-out message, []), never the unreachable message.
C4_TimeoutsReportedAsTimeouts ==
    (Finished /\ service.transport \in {"connect_timeout", "read_timeout"}) =>
        /\ pc = "returned"
        /\ result = Result(None, TimeoutMessage, <<>>)
        /\ result.answer # UnreachableMessage

\* C5: a 2xx response whose body is not a JSON array (JSON of another type,
\* or not JSON at all) yields (None, a message containing the payload, []).
C5_MalformedResponseShowsPayload ==
    (/\ Finished
     /\ service.transport = "ok"
     /\ service.status >= 200
     /\ service.status < 300
     /\ service.body.kind # "array") =>
        /\ pc = "returned"
        /\ result.chunks.none
        /\ result.sources = <<>>
        /\ \/ Contains(result.answer, service.body.raw)
           \/ Contains(result.answer, PyStr(service.body.raw))

\* C6 as stated: generate_compliance_response never raises to its caller.
C6_GeneratorNeverRaises == genRaised = NoExc

\* C6 as amended: an error of the LLM call leaves generate_compliance_response
\* and is caught by get_compliance_answer, which returns an answer prefixed
\* with the error marker; nothing reaches the caller of get_compliance_answer.
C6_OrchestratorCatchesGenerationErrors ==
    genRaised # NoExc =>
        /\ pc = "returned"
        /\ raised = NoExc
        /\ result.answer = <<"LLM error: ">> \o genRaised.msg
        /\ ~result.chunks.none

C6_Witness ==
    /\ pc = "returned"
    /\ genRaised.cls = "IndexError"
    /\ llm = LlmOk(<<>>)

C8_ShellLoop ==
    /\ shell # "crashed"
    /\ shell = "stopped" => stopReason \in {"exit", "eof", "interrupt"}
    /\ invocations = queryLines
    /\ shell = "input" => (pc = "idle" /\ log = <<>>)

RECURSIVE SumLen(_)
SumLen(texts) == IF Len(texts) = 0 THEN 0 ELSE Len(Head(texts)) + SumLen(Tail(texts))

PureTextsOf(cs) == [i \in 1..Len(cs) |-> cs[i].text]

\* Where the i-th text starts in the joined string (0-based offset)
Offset(texts, i) == SumLen(SubSeq(texts, 1, i - 1)) + 2 * (i - 1)

\* C9 as stated: the empty sequence yields the empty string, and for n >= 1
\* chunks the returned string holds n - 1 blank-line separators.
C9_BlankLineCount ==
    p_pc \in {"built", "extracted"} =>
        /\ (Len(p_chunks) = 0 => p_context = <<>>)
        /\ (Len(p_chunks) > 0 => CountBlankLines(p_context) = Len(p_chunks) - 1)

\* C9 as amended: the texts appear in input order, each pair of neighbours
\* separated by exactly one inserted "\n\n"; the string holds n - 1
\* blank-line separators when no text contains a newline.
C9_JoinedInOrder ==
    p_pc \in {"built", "extracted"} =>
        LET texts == PureTextsOf(p_chunks)
            n == Len(p_chunks)
        IN /\ (n = 0 => p_context = <<>>)
           /\ (n > 0 => Len(p_context) = SumLen(texts) + 2 * (n - 1))
           /\ \A i \in 1..n :
                SubSeq(p_context, Offset(texts, i) + 1, Offset(texts, i) + Len(texts[i]))
                  = texts[i]
           /\ \A i \in 1..(n - 1) :
                LET at == Offset(texts, i) + Len(texts[i])
                IN p_context[at + 1] = NL /\ p_context[at + 2] = NL
           /\ ((n > 0 /\ \A i \in 1..n : NL \notin Range(texts[i]))
                 => CountBlankLines(p_context) = n - 1)

C9_Witness ==
    /\ p_pc = "built"
    /\ Len(p_chunks) = 3
    /\ \A i \in 1..3 : p_chunks[i].text = <<"a">>
    /\ CountBlankLines(p_context) = 2

\* C10: extract_sources returns a duplicate-free collection, no larger than
\* the chunk sequence, holding exactly the distinct metadata.name values.
C10_SourcesAreDistinctNames ==
    p_pc = "extracted" =>
        /\ NoDuplicates(p_sources)
        /\ Len(p_sources) <= Len(p_chunks)
        /\ Len(p_sources) = Cardinality({p_chunks[i].name : i \in 1..Len(p_chunks)})
        /\ \A k \in 1..Len(p_sources) : \E i \in 1..Len(p_chunks) : p_chunks[i].name = p_sources[k]
        /\ \A i \in 1..Len(p_chunks) : \E k \in 1..Len(p_sources) : p_sources[k] = p_chunks[i].name

C10_Witness ==
    /\ p_pc = "extracted"
    /\ Len(p_chunks) = 3
    /\ Len(p_sources) = 2

====
